---- MODULE Spec2Model ----
(***************************************************************************)
(* Model of djvu_convert.py: the page counter (get_page_count), the page   *)
(* extractor (extract_page), the document converter (convert_djvu_to_cbz)  *)
(* and the batch orchestrator (process_folder).                            *)
(*                                                                         *)
(* Text is modelled as sequences of one-character strings, so that strip,  *)
(* isdigit, int, split, startswith, the %04d format and the lexical order  *)
(* of list.sort() are computed on characters as Python computes them.      *)
(* The external tools (djvused, ddjvu, PIL, the file system calls that can *)
(* fail) are nondeterministic inputs.                                      *)
(***************************************************************************)
EXTENDS Integers, Sequences, FiniteSets, TLC

VARIABLES
    counter,        \* one get_page_count call: tool outcomes, position, calls made, return value
    extractor,      \* one extract_page call: tool outcomes, files before/after, return value
    naming,         \* page file names of one scratch directory and their sorted listing
    input_exists,   \* os.path.exists(input_folder)
    ddjvu_exists,   \* os.path.exists(DDJVU_PATH)
    max_workers,    \* process_folder's max_workers argument
    output_folder,  \* process_folder's output_folder argument
    dirs,           \* the directories that exist
    doc,            \* what the tools do for the document, when that is held fixed
    tree,           \* the files under input_folder
    disk,           \* destination path -> archive file at that path (or NoFile)
    tmp,            \* temporary directory name -> its files (or NoDir)
    djvu_files,     \* the recorded jobs: sequence of [input, output]
    ppc,            \* position of process_folder
    cur,            \* index of the job the main loop is at (sequential job / awaited future)
    successful,     \* process_folder's success counter
    job             \* job index -> state of its convert_djvu_to_cbz invocation

vars == <<counter, extractor, naming, input_exists, ddjvu_exists, max_workers,
          output_folder, dirs, doc, tree, disk, tmp, djvu_files, ppc, cur, successful,
          job>>

mainVars == <<input_exists, ddjvu_exists, max_workers, output_folder, dirs, doc, tree, disk,
              tmp, djvu_files, ppc, cur, successful, job>>

(***************************************************************************)
(* Bounds of the model.                                                    *)
(***************************************************************************)
\* largest page count of the document of a one-job batch
MaxPages == 2
\* largest page count of the documents of a batch of several jobs
BatchPages == 1
\* number of lines a page listing of the page-counter model has at most
MaxLines == 2

(***************************************************************************)
(* Characters and strings.                                                 *)
(***************************************************************************)
DecimalChars == {"0", "1", "2", "3", "4", "5", "6", "7", "8", "9"}

\* "sup2" stands for the one character U+00B2 (superscript two): str.isdigit()
\* accepts it, int() rejects it.
OtherDigitChars == {"sup2"}

WhiteChars == {" ", "\n"}

DigitValue(c) ==
    CASE c = "0" -> 0 [] c = "1" -> 1 [] c = "2" -> 2 [] c = "3" -> 3 [] c = "4" -> 4
      [] c = "5" -> 5 [] c = "6" -> 6 [] c = "7" -> 7 [] c = "8" -> 8 [] c = "9" -> 9

DigitChar(d) ==
    CASE d = 0 -> "0" [] d = 1 -> "1" [] d = 2 -> "2" [] d = 3 -> "3" [] d = 4 -> "4"
      [] d = 5 -> "5" [] d = 6 -> "6" [] d = 7 -> "7" [] d = 8 -> "8" [] d = 9 -> "9"

RECURSIVE LStrip(_)
LStrip(s) == IF s # <<>> /\ Head(s) \in WhiteChars THEN LStrip(Tail(s)) ELSE s

RECURSIVE RStrip(_)
RStrip(s) ==
    IF s # <<>> /\ s[Len(s)] \in WhiteChars THEN RStrip(SubSeq(s, 1, Len(s) - 1)) ELSE s

\* str.strip()
Strip(s) == RStrip(LStrip(s))

\* str.isdigit(): non-empty and every character is a digit character
IsDigit(s) == s # <<>> /\ \A i \in 1..Len(s) : s[i] \in DecimalChars \cup OtherDigitChars

\* whether int(s) accepts a string that passed isdigit()
IntAccepts(s) == \A i \in 1..Len(s) : s[i] \in DecimalChars

RECURSIVE IntOf(_)
\* int(s) of a decimal string
IntOf(s) == IF s = <<>> THEN 0 ELSE 10 * IntOf(SubSeq(s, 1, Len(s) - 1)) + DigitValue(s[Len(s)])

\* str.startswith(prefix)
StartsWith(s, prefix) == Len(s) >= Len(prefix) /\ SubSeq(s, 1, Len(prefix)) = prefix

RECURSIVE SplitLines(_)
\* str.split('\n')
SplitLines(s) ==
    IF \A i \in 1..Len(s) : s[i] # "\n"
    THEN <<s>>
    ELSE LET k == CHOOSE i \in 1..Len(s) : s[i] = "\n" /\ \A h \in 1..(i - 1) : s[h] # "\n"
         IN  <<SubSeq(s, 1, k - 1)>> \o SplitLines(SubSeq(s, k + 1, Len(s)))

(***************************************************************************)
(* get_page_count.                                                         *)
(***************************************************************************)
\* the value get_page_count returns when both tools gave no count
DefaultPages == 100

\* "no count from this attempt"
NoCount == -1

PageMarker == <<"P", "a", "g", "e", " ">>

\* what subprocess.run gives: it raised, or an exit status and the captured stdout
Raised == [raised |-> TRUE, rc |-> 0, stdout |-> <<>>]
Ran(rc, out) == [raised |-> FALSE, rc |-> rc, stdout |-> out]

\* first attempt with the exit status of djvused ignored
DjvusedCountAnyStatus(o) ==
    IF o.raised THEN NoCount
    ELSE IF IsDigit(Strip(o.stdout))
         THEN IF IntAccepts(Strip(o.stdout)) THEN IntOf(Strip(o.stdout))
              ELSE NoCount
         ELSE NoCount

\* first attempt: djvused -e n
DjvusedCount(o) ==
    IF o.raised THEN NoCount
    ELSE IF o.rc = 0 /\ IsDigit(Strip(o.stdout))
         THEN IF IntAccepts(Strip(o.stdout)) THEN IntOf(Strip(o.stdout))
              ELSE NoCount      \* int() raises ValueError, caught at line 22
         ELSE NoCount

\* the lines of the listing that count as pages
PageLines(out) ==
    {i \in 1..Len(SplitLines(out)) : StartsWith(Strip(SplitLines(out)[i]), PageMarker)}

\* second attempt: ddjvu -l
ListerCount(o) ==
    IF o.raised THEN NoCount
    ELSE IF o.rc = 0 /\ PageLines(o.stdout) # {} THEN Cardinality(PageLines(o.stdout))
         ELSE NoCount

\* the whole function, given the outcome of each tool were it invoked
get_page_count(o1, o2) ==
    IF DjvusedCount(o1) # NoCount THEN DjvusedCount(o1)
    ELSE IF ListerCount(o2) # NoCount THEN ListerCount(o2)
         ELSE DefaultPages

\* stdout samples of djvused
DjvusedStdouts ==
    { <<>>, <<"0">>, <<"1">>, <<"2", "\n">>, <<" ", "3">>, <<"1", "2">>, <<"0", "2">>,
      <<"sup2">>, <<"-", "1">>, <<"1", " ", "2">>, <<"n", "o">> }

DjvusedOutcomes == {Raised} \cup {Ran(rc, out) : rc \in {0, 1}, out \in DjvusedStdouts}

\* line samples of ddjvu -l
ListerLineSamples ==
    { <<"P", "a", "g", "e", " ", "1">>,
      <<" ", "P", "a", "g", "e", " ", "2", " ">>,
      <<"P", "a", "g", "e", " ">>,
      <<"P", "a", "g", "e", "s">>,
      <<>> }

RECURSIVE JoinLines(_)
JoinLines(ls) ==
    IF Len(ls) = 0 THEN <<>>
    ELSE IF Len(ls) = 1 THEN ls[1]
    ELSE ls[1] \o <<"\n">> \o JoinLines(Tail(ls))

ListerStdouts ==
    {JoinLines(ls) : ls \in UNION {[1..n -> ListerLineSamples] : n \in 0..MaxLines}}

ListerOutcomes == {Raised} \cup {Ran(rc, out) : rc \in {0, 1}, out \in ListerStdouts}

CounterIdle == [pc |-> "idle"]

InitCounter ==
    \E o1 \in DjvusedOutcomes, o2 \in ListerOutcomes :
        counter = [pc |-> "djvused", djvused |-> o1, lister |-> o2,
                   calls |-> <<>>, ret |-> NoCount, by |-> "none"]

\* lines 16-23
CountDjvused ==
    /\ counter.pc = "djvused"
    /\ counter' = IF DjvusedCount(counter.djvused) # NoCount
                  THEN [counter EXCEPT !.pc = "returned",
                                       !.calls = Append(@, "djvused"),
                                       !.ret = DjvusedCount(counter.djvused),
                                       !.by = "djvused"]
                  ELSE [counter EXCEPT !.pc = "lister", !.calls = Append(@, "djvused")]

\* lines 25-35
CountLister ==
    /\ counter.pc = "lister"
    /\ counter' = IF ListerCount(counter.lister) # NoCount
                  THEN [counter EXCEPT !.pc = "returned",
                                       !.calls = Append(@, "lister"),
                                       !.ret = ListerCount(counter.lister),
                                       !.by = "lister"]
                  ELSE [counter EXCEPT !.pc = "default", !.calls = Append(@, "lister")]

\* lines 37-39
CountDefault ==
    /\ counter.pc = "default"
    /\ counter' = [counter EXCEPT !.pc = "returned", !.ret = DefaultPages, !.by = "default"]


(***************************************************************************)
(* extract_page.                                                           *)
(***************************************************************************)
\* The files of one page in a scratch directory: the PNG at output_file
\* ("absent", "ddjvu": written by the rendering tool, "pil": written by
\* Image.save, "partial": left by an Image.save that raised) and whether the
\* TIFF at output_file.replace(".png", ".tiff") exists.
NoFiles == [png |-> "absent", tiff |-> FALSE]

\* One rendering call: subprocess.run raised (the tool did not run), or the
\* exit status and whether the tool left a file at the path it was given.
RenderOutcomes ==
    {[raised |-> TRUE, rc |-> 0, wrote |-> FALSE]}
        \cup {[raised |-> FALSE, rc |-> rc, wrote |-> w] : rc \in {0, 1}, w \in BOOLEAN}

\* PIL: the import or Image.open raises; save raises having removed what it
\* created; save raises leaving a truncated file; all succeed.
PilOutcomes == {"open_raises", "save_raises_removed", "save_raises_partial", "ok"}

ExtractOutcomes ==
    [primary : RenderOutcomes, secondary : RenderOutcomes, pil : PilOutcomes,
     remove_raises : BOOLEAN]

\* lines 56-58 with the exit status alone trusted
PrimarySucceededByStatus(o, f) == ~o.raised /\ o.rc = 0

\* lines 56-58: the condition of the first return True, f the files after the call
PrimarySucceeded(o, f) == ~o.raised /\ o.rc = 0 /\ f.png # "absent"

\* lines 72-73 with the file alone looked at
SecondarySucceededByFile(o, f) == ~o.raised /\ f.tiff

\* lines 72-73: the condition of the conversion branch, f the files after the call
SecondarySucceeded(o, f) == ~o.raised /\ o.rc = 0 /\ f.tiff

\* lines 74-79: Image.open(tiff).save(png), os.remove(tiff), return True; an
\* exception of any of them is caught at line 82
ConvertTiff(o, f) ==
    CASE o.pil = "open_raises" -> [ret |-> FALSE, files |-> f]
      [] o.pil = "save_raises_removed" ->
            [ret |-> FALSE,
             files |-> [f EXCEPT !.png = IF f.png = "absent" THEN "absent" ELSE "partial"]]
      [] o.pil = "save_raises_partial" -> [ret |-> FALSE, files |-> [f EXCEPT !.png = "partial"]]
      [] o.pil = "ok" ->
            IF o.remove_raises
            THEN [ret |-> FALSE, files |-> [f EXCEPT !.png = "pil"]]
            ELSE [ret |-> TRUE, files |-> [png |-> "pil", tiff |-> FALSE]]

\* lines 41-84: the return value and the page's files after the call
extract_page(o, f) ==
    IF o.primary.raised THEN [ret |-> FALSE, files |-> f]
    ELSE LET f1 == IF o.primary.wrote THEN [f EXCEPT !.png = "ddjvu"] ELSE f
         IN  IF PrimarySucceeded(o.primary, f1) THEN [ret |-> TRUE, files |-> f1]
             ELSE IF o.secondary.raised THEN [ret |-> FALSE, files |-> f1]
             ELSE LET f2 == IF o.secondary.wrote THEN [f1 EXCEPT !.tiff = TRUE] ELSE f1
                  IN  IF SecondarySucceeded(o.secondary, f2) THEN ConvertTiff(o, f2)
                      ELSE [ret |-> FALSE, files |-> f2]

ExtractorIdle == [pc |-> "idle"]

InitExtractor ==
    \E o \in ExtractOutcomes :
        extractor = [pc |-> "call", tools |-> o, ret |-> FALSE, files |-> NoFiles]

\* one call of extract_page on a page of a fresh scratch directory
ExtractCall ==
    /\ extractor.pc = "call"
    /\ extractor' = [extractor EXCEPT !.pc = "returned",
                                      !.ret = extract_page(extractor.tools, NoFiles).ret,
                                      !.files = extract_page(extractor.tools, NoFiles).files]

(***************************************************************************)
(* Page file names and their sorted listing.                               *)
(***************************************************************************)
\* width of the {page:04d} format
PadWidth == 4

Ord(c) ==
    CASE c = "." -> 46 [] c = "_" -> 95
      [] c = "a" -> 97 [] c = "e" -> 101 [] c = "f" -> 102 [] c = "g" -> 103
      [] c = "i" -> 105 [] c = "l" -> 108 [] c = "n" -> 110 [] c = "o" -> 111
      [] c = "d" -> 100 [] c = "p" -> 112 [] c = "t" -> 116
      [] c \in DecimalChars -> 48 + DigitValue(c)

RECURSIVE Digits(_)
\* str(n) of n >= 0
Digits(n) == IF n < 10 THEN <<DigitChar(n)>> ELSE Digits(n \div 10) \o <<DigitChar(n % 10)>>

RECURSIVE ZeroPad(_, _)
ZeroPad(s, w) == IF Len(s) >= w THEN s ELSE ZeroPad(<<"0">> \o s, w)

PngExt == <<".", "p", "n", "g">>
TiffExt == <<".", "t", "i", "f", "f">>

\* f"page_{page:04d}.png"
page_filename(page) == <<"p", "a", "g", "e", "_">> \o ZeroPad(Digits(page), PadWidth) \o PngExt

\* str.endswith(suffix)
EndsWith(s, suffix) ==
    Len(s) >= Len(suffix) /\ SubSeq(s, Len(s) - Len(suffix) + 1, Len(s)) = suffix

\* output_file.replace(".png", ".tiff") of a page file name
tiff_filename(name) == SubSeq(name, 1, Len(name) - Len(PngExt)) \o TiffExt

\* the order of Python strings: by the first differing character, a proper prefix first
LexLess(a, b) ==
    \E k \in 1..(Len(b)) :
        /\ \A h \in 1..(k - 1) : h <= Len(a) /\ a[h] = b[h]
        /\ \/ k = Len(a) + 1
           \/ k <= Len(a) /\ Ord(a[k]) < Ord(b[k])

RECURSIVE SortNames(_)
\* list.sort() of a list of distinct names
SortNames(S) ==
    IF S = {} THEN <<>>
    ELSE LET m == CHOOSE x \in S : \A y \in S : x = y \/ LexLess(x, y)
         IN  <<m>> \o SortNames(S \ {m})

\* the page index a page file name encodes
PageOfName(name) == IntOf(SubSeq(name, 6, Len(name) - Len(PngExt)))

\* page indices the naming model draws the extracted pages from
PageSamples == {1, 2, 9, 10, 999, 1000, 9998, 9999, 10000, 10001}

NamingIdle == [pc |-> "idle"]

InitNaming ==
    \E n \in PageSamples : \E P \in SUBSET {p \in PageSamples : p <= n} :
        naming = [pc |-> "extracted", num_pages |-> n, pages |-> P, png_files |-> <<>>]

\* lines 126-127: the .png files of the scratch directory, sorted
ListAndSort ==
    /\ naming.pc = "extracted"
    /\ naming' = [naming EXCEPT
                     !.pc = "sorted",
                     !.png_files = SortNames({page_filename(p) : p \in naming.pages})]


(***************************************************************************)
(* Paths, the input tree and the destination archives.                     *)
(***************************************************************************)
\* str.lower() on the characters file names are made of
LowerChar(c) ==
    CASE c = "D" -> "d" [] c = "J" -> "j" [] c = "V" -> "v" [] c = "U" -> "u"
      [] OTHER -> c

Lower(s) == [i \in 1..Len(s) |-> LowerChar(s[i])]

\* os.path.splitext(file)[0]: the name up to its last dot, a leading dot not counting
SplitextStem(name) ==
    LET dots == {i \in 2..Len(name) : name[i] = "."}
    IN  IF dots = {} THEN name
        ELSE SubSeq(name, 1, (CHOOSE i \in dots : \A k \in dots : k <= i) - 1)

DjvuExts == { <<".", "d", "j", "v", "u">>, <<".", "d", "j", "v">> }
CbzExt == <<".", "c", "b", "z">>

\* line 180: file.lower().endswith(('.djvu', '.djv'))
IsDjvu(name) == \E e \in DjvuExts : EndsWith(Lower(name), e)

\* the files input trees are made of: directory relative to input_folder, file name
FileA == [dir |-> ".",   name |-> <<"a", ".", "d", "j", "v", "u">>]
FileB == [dir |-> ".",   name |-> <<"a", ".", "d", "j", "v">>]
FileC == [dir |-> "sub", name |-> <<"b", ".", "D", "J", "V", "U">>]
FileT == [dir |-> ".",   name |-> <<"a", ".", "t", "x", "t">>]

FileUniverse == {FileA, FileB, FileC, FileT}

\* the input trees of the model
Trees ==
    { {}, {FileT}, {FileA}, {FileC, FileT}, {FileA, FileB}, {FileB, FileC, FileT} }

\* the directory names of the model: input_folder, and a directory that is not
\* input_folder nor under it
InputFolder == "in"
OtherFolder == "out"

\* values of the output_folder argument ("None": not given)
OutputFolderChoices == {"None", OtherFolder}

\* lines 166-167: output_folder after the default is applied
OutputRoot == IF output_folder = "None" THEN InputFolder ELSE output_folder

\* lines 182-190 with the relative directory dropped
output_path_flat(folder, file) ==
    [root |-> folder, dir |-> ".", name |-> SplitextStem(file.name) \o CbzExt]

\* lines 182-190: the destination of a source file, under the output folder
output_path(folder, file) ==
    [root |-> folder, dir |-> file.dir, name |-> SplitextStem(file.name) \o CbzExt]

\* the destination paths of the model
DestUniverse == {output_path(r, f) : r \in {InputFolder, OtherFolder}, f \in FileUniverse}

\* a directory: the folder it is under and its path relative to it
Dir(root, rel) == [root |-> root, dir |-> rel]

\* os.makedirs(path): creates the directory and the missing ones above it
makedirs(D, root, rel) == D \cup {Dir(root, "."), Dir(root, rel)}

\* the directories of the input tree
InputDirs(files) == {Dir(InputFolder, ".")} \cup {Dir(InputFolder, f.dir) : f \in files}

\* an archive file: its entries in order, whether its writer closed it after
\* the last entry, and the job that wrote it (0: an earlier run)
NoFile == [exists |-> FALSE, entries |-> <<>>, complete |-> FALSE, by |-> 0]
StaleArchive ==
    [exists |-> TRUE, entries |-> << <<"o", "l", "d", ".", "p", "n", "g">> >>,
     complete |-> TRUE, by |-> 0]

\* names tempfile.mkdtemp can give
TmpNames == {"tmp_a", "tmp_b"}

\* a temporary directory name: no directory ("none"), the scratch directory of
\* an invocation ("scratch") with the files of each page, or what an rmtree that
\* raised left ("leftover": the directory, and an untracked part of its files)
NoDir == [state |-> "none", files |-> [p \in 1..MaxPages |-> NoFiles]]
EmptyDir == [state |-> "scratch", files |-> [p \in 1..MaxPages |-> NoFiles]]
LeftoverDir == [state |-> "leftover", files |-> [p \in 1..MaxPages |-> NoFiles]]

\* os.listdir(temp_dir)
ListDir(d) ==
    {page_filename(p) : p \in {q \in 1..MaxPages : d.files[q].png # "absent"}}
        \cup {tiff_filename(page_filename(p)) : p \in {q \in 1..MaxPages : d.files[q].tiff}}

\* lines 126-127
png_files(d) == SortNames({f \in ListDir(d) : EndsWith(f, PngExt)})

(***************************************************************************)
(* convert_djvu_to_cbz: one invocation per job.                            *)
(***************************************************************************)
NewJob ==
    [pc |-> "pending", temp_dir |-> "none", num_pages |-> 0, page |-> 1,
     successful_pages |-> 0, extracted |-> {}, result |-> "none", opened |-> FALSE]

\* the end of an invocation: its locals are gone; its outcome is left, and
\* whether it opened its destination for writing
Ended(outcome, opened) ==
    [NewJob EXCEPT !.pc = "done", !.result = outcome, !.opened = opened]

Jobs == 1..Len(djvu_files)

Running == {j \in Jobs : job[j].pc \in {"count", "extract", "zip"}}

\* the job may start: the sequential loop is at it, or the pool has a free
\* worker and it is the first job of the queue
MayStart(j) ==
    /\ job[j].pc = "pending"
    /\ \/ ppc = "seq" /\ cur = j
       \/ /\ ppc \in {"pool", "shutdown"}
          /\ Cardinality(Running) < max_workers
          /\ \A i \in 1..(j - 1) : job[i].pc # "pending"

\* tempfile.mkdtemp: the names it can create, those of no existing directory
mkdtemp(t) == {d \in TmpNames : t[d].state = "none"}

\* lines 95-99: mkdtemp creates the scratch directory, or raises before the try
StartJob(j) ==
    /\ MayStart(j)
    /\ \/ \E d \in mkdtemp(tmp) :
            /\ tmp' = [tmp EXCEPT ![d] = EmptyDir]
            /\ job' = [job EXCEPT ![j].pc = "count", ![j].temp_dir = d]
       \/ /\ job' = [job EXCEPT ![j] = Ended("raised", FALSE)]
          /\ UNCHANGED tmp
    /\ UNCHANGED <<counter, extractor, naming, input_exists, ddjvu_exists, max_workers,
                   output_folder, dirs, doc,
                   tree, disk, djvu_files, ppc, cur, successful>>

\* the page counts of the documents of the batch model: what get_page_count
\* can return, up to MaxPages
PageCounts ==
    {n \in 0..MaxPages :
        \E o1 \in DjvusedOutcomes, o2 \in ListerOutcomes : get_page_count(o1, o2) = n}

\* the cap on the page count of the documents of the run
PageLimit == IF Len(djvu_files) > 1 THEN BatchPages ELSE MaxPages

\* what a call of extract_page can return and leave, by the files before it
ExtractResults ==
    [f \in [png : {"absent", "ddjvu", "pil", "partial"}, tiff : BOOLEAN] |->
        {extract_page(o, f) : o \in ExtractOutcomes}]

\* one tool behaviour for each thing extract_page can do to a page of a fresh
\* scratch directory
ToolSamples ==
    {CHOOSE o \in ExtractOutcomes : extract_page(o, NoFiles) = r : r \in ExtractResults[NoFiles]}

\* how the writing of the archive goes: ZipFile() raises, the with-block raises
\* after k entries (after the last one when there are fewer), or it succeeds
ZipBehaviours ==
    {[kind |-> "open_raises", after |-> 0], [kind |-> "ok", after |-> 0]}
        \cup {[kind |-> "write_raises", after |-> k] : k \in 0..MaxPages}

\* the tools behave as they will: nothing is held fixed
DocFree == [fixed |-> FALSE]

\* the behaviours of one document's tools held fixed over its conversions: the
\* page count get_page_count gets, what the rendering tool and PIL do for each
\* page, and how the writing of the archive goes
DocBehaviours ==
    LET beyond == CHOOSE o \in ToolSamples : TRUE
    IN  UNION {{[fixed |-> TRUE, num_pages |-> n, pages |-> ps, zip |-> z] :
                   ps \in {f \in [1..MaxPages -> ToolSamples] :
                              \A p \in 1..MaxPages : p > n => f[p] = beyond},
                   z \in ZipBehaviours} :
               n \in {m \in PageCounts : m <= MaxPages}}

\* the page counts get_page_count can return to the invocation
CountChoices ==
    IF doc.fixed THEN {doc.num_pages} ELSE {n \in PageCounts : n <= PageLimit}

\* what extract_page can return and leave for page p, f being the page's files
ExtractChoices(p, f) ==
    IF doc.fixed THEN {extract_page(doc.pages[p], f)} ELSE ExtractResults[f]

\* the outcomes of A the writing of the archive can have
ZipChoices(A, names) ==
    IF ~doc.fixed \/ Cardinality(A) = 1 THEN A
    ELSE CASE doc.zip.kind = "open_raises" -> {a \in A : ~a.opened}
           [] doc.zip.kind = "ok" -> {a \in A : a.ret = "true"}
           [] doc.zip.kind = "write_raises" ->
                {a \in A : /\ a.opened /\ a.ret = "false"
                           /\ Len(a.file.entries) =
                                 (IF doc.zip.after < Len(names) THEN doc.zip.after
                                  ELSE Len(names))}

\* lines 103-107
GetPageCount(j) ==
    /\ job[j].pc = "count"
    /\ \E n \in CountChoices :
          /\ job' = [job EXCEPT ![j].pc = "extract",
                                ![j].num_pages = n,
                                ![j].page = 1,
                                ![j].successful_pages = 0]
    /\ UNCHANGED <<counter, extractor, naming, input_exists, ddjvu_exists, max_workers,
                   output_folder, dirs, doc,
                   tree, disk, tmp, djvu_files, ppc, cur, successful>>

\* lines 108-116 with the loop left at the first page that fails
ExtractPageStopsOnFailure(j) ==
    /\ job[j].pc = "extract"
    /\ job[j].page <= job[j].num_pages
    /\ LET d == job[j].temp_dir
           p == job[j].page
       IN  \E r \in ExtractChoices(p, tmp[d].files[p]) :
              /\ tmp' = [tmp EXCEPT ![d].files[p] = r.files]
              /\ job' = [job EXCEPT
                            ![j].page = IF r.ret THEN p + 1 ELSE job[j].num_pages + 1,
                            ![j].successful_pages = IF r.ret THEN @ + 1 ELSE @,
                            ![j].extracted = IF r.ret THEN @ \cup {p} ELSE @]
    /\ UNCHANGED <<counter, extractor, naming, input_exists, ddjvu_exists, max_workers,
                   output_folder, dirs, doc,
                   tree, disk, djvu_files, ppc, cur, successful>>

\* lines 108-116: one iteration of the page loop
ExtractPage(j) ==
    /\ job[j].pc = "extract"
    /\ job[j].page <= job[j].num_pages
    /\ LET d == job[j].temp_dir
           p == job[j].page
       IN  \E r \in ExtractChoices(p, tmp[d].files[p]) :
              /\ tmp' = [tmp EXCEPT ![d].files[p] = r.files]
              /\ job' = [job EXCEPT
                            ![j].page = p + 1,
                            ![j].successful_pages = IF r.ret THEN @ + 1 ELSE @,
                            ![j].extracted = IF r.ret THEN @ \cup {p} ELSE @]
    /\ UNCHANGED <<counter, extractor, naming, input_exists, ddjvu_exists, max_workers,
                   output_folder, dirs, doc,
                   tree, disk, djvu_files, ppc, cur, successful>>

\* the archive a with-block leaves that wrote the first k of the names and
\* then raised (k below the number of names: in zipf.write; else in closing)
Partial(names, k, j) ==
    [exists |-> TRUE, entries |-> SubSeq(names, 1, k), complete |-> FALSE, by |-> j]

\* the archive a with-block leaves that wrote every name and closed it
Complete(names, j) ==
    [exists |-> TRUE, entries |-> names, complete |-> TRUE, by |-> j]

\* line 118
NoPages(n) == n = 0

\* whether another invocation that has not ended has the same destination and
\* runs on another worker thread: its with-block can overlap this one's
Contended(j) ==
    /\ max_workers > 1
    /\ \E i \in Jobs \ {j} :
          djvu_files[i].output = djvu_files[j].output /\ job[i].pc # "done"

\* lines 118-139 with the archive opened for appending: the entries of the file
\* that was there are kept
ArchiveOutcomesAppending(j, old, names) ==
    IF NoPages(job[j].successful_pages)
    THEN {[ret |-> "false", file |-> old, opened |-> FALSE]}
    ELSE {[ret |-> "false", file |-> old, opened |-> FALSE]}
            \cup {[ret |-> "false", file |-> Partial(old.entries \o names, k, j),
                   opened |-> TRUE] : k \in 0..Len(names)}
            \cup {[ret |-> "true", file |-> Complete(old.entries \o names, j),
                   opened |-> TRUE]}

\* lines 118-139: what the try block returns and the file it leaves at
\* output_file, old being the file there before: the early return of line 120;
\* ZipFile() raises before the file is touched; the with-block raises after k
\* entries; the archive is written
ArchiveOutcomes(j, old, names) ==
    IF NoPages(job[j].successful_pages)
    THEN {[ret |-> "false", file |-> old, opened |-> FALSE]}
    ELSE {[ret |-> "false", file |-> old, opened |-> FALSE]}
            \cup {[ret |-> "false", file |-> Partial(names, k, j), opened |-> TRUE] :
                      k \in 0..Len(names)}
            \cup {[ret |-> "true", file |-> Complete(names, j), opened |-> TRUE]}

\* two with-blocks wrote the file through their own handles at the same time:
\* what job j's close leaves has no entry a reader can find
Clobbered(j) == [exists |-> TRUE, entries |-> <<>>, complete |-> FALSE, by |-> j]

\* line 124 alone, when the with-block can overlap another: ZipFile(output_file,
\* 'w') truncates the file and the invocation goes on to write it
ZipOpen(j) ==
    /\ job[j].pc = "extract"
    /\ job[j].page > job[j].num_pages
    /\ ~NoPages(job[j].successful_pages)
    /\ Contended(j)
    /\ disk' = [disk EXCEPT ![djvu_files[j].output] = Partial(<<>>, 0, j)]
    /\ job' = [job EXCEPT ![j].pc = "zip"]
    /\ UNCHANGED <<counter, extractor, naming, input_exists, ddjvu_exists, max_workers,
                   output_folder, dirs, doc,
                   tree, tmp, djvu_files, ppc, cur, successful>>

\* whether another invocation opened or wrote the file since job j opened it
Overlapped(j) ==
    \/ disk[djvu_files[j].output].by # j
    \/ \E i \in Jobs \ {j} :
          djvu_files[i].output = djvu_files[j].output /\ job[i].pc = "zip"

\* lines 125-139 after the file was opened: the try block's value and the file
\* the with-block leaves; when the writing overlapped another's, the file can
\* be unreadable whatever the value
WriteOutcomes(j, names) ==
    {[ret |-> "false", file |-> Partial(names, k, j), opened |-> TRUE] : k \in 0..Len(names)}
        \cup {[ret |-> "true", file |-> Complete(names, j), opened |-> TRUE]}
        \cup (IF Overlapped(j)
              THEN {[ret |-> r, file |-> Clobbered(j), opened |-> TRUE] : r \in {"true", "false"}}
              ELSE {})

\* what is left of lines 118-139 at the invocation's position
TryOutcomes(j, old, names) ==
    IF job[j].pc = "zip" THEN WriteOutcomes(j, names)
    ELSE IF Contended(j)
         THEN {a \in ArchiveOutcomes(j, old, names) : ~a.opened}
         ELSE ArchiveOutcomes(j, old, names)

\* lines 140-143 with the rmtree left out
rmtree_skipped(t, d, raises) == t

\* lines 140-143: shutil.rmtree(temp_dir) removes the directory, or raises
rmtree(t, d, raises) == [t EXCEPT ![d] = IF raises THEN LeftoverDir ELSE NoDir]

\* lines 118-143: the end of the invocation after the page loop: the try block
\* returns, the finally block removes the scratch directory, and the value of
\* the try block is returned unless rmtree raised
ArchiveAndCleanup(j) ==
    /\ job[j].pc \in {"extract", "zip"}
    /\ job[j].page > job[j].num_pages
    /\ LET dest == djvu_files[j].output
           d == job[j].temp_dir
       IN  \E a \in ZipChoices(TryOutcomes(j, disk[dest], png_files(tmp[d])),
                                png_files(tmp[d])),
              raises \in BOOLEAN :
              /\ disk' = [disk EXCEPT ![dest] = a.file]
              /\ tmp' = rmtree(tmp, d, raises)
              /\ job' = [job EXCEPT
                            ![j] = Ended(IF raises THEN "raised" ELSE a.ret, a.opened)]
    /\ UNCHANGED <<counter, extractor, naming, input_exists, ddjvu_exists, max_workers,
                   output_folder, dirs, doc,
                   tree, djvu_files, ppc, cur, successful>>

(***************************************************************************)
(* process_folder.                                                         *)
(***************************************************************************)
\* values of the max_workers argument
WorkerChoices == {1, 2}

\* lines 161-172
PfCheckInput ==
    /\ ppc = "start"
    /\ ppc' = IF input_exists THEN "discover" ELSE "returned_no_input"
    /\ dirs' = IF input_exists THEN makedirs(dirs, OutputRoot, ".") ELSE dirs
    /\ UNCHANGED <<counter, extractor, naming, input_exists, ddjvu_exists, max_workers,
                   output_folder, doc, tree, disk, tmp, djvu_files, cur, successful, job>>

\* the orders os.walk can find the source files in: top-down, so the files of
\* input_folder itself before those of its subdirectory; any order within one
\* directory
WalkOrders(files) ==
    {s \in [1..Cardinality(files) -> files] :
        /\ \A i, k \in DOMAIN s : i # k => s[i] # s[k]
        /\ \A i, k \in DOMAIN s : i < k => ~(s[i].dir = "sub" /\ s[k].dir = ".")}

\* lines 175-197: the walk records one job per source file
PfDiscover ==
    /\ ppc = "discover"
    /\ \E s \in WalkOrders({f \in tree : IsDjvu(f.name)}) :
          /\ djvu_files' = [i \in DOMAIN s |->
                               [input |-> s[i], output |-> output_path(OutputRoot, s[i])]]
          /\ dirs' = dirs \cup UNION {makedirs({}, OutputRoot, s[i].dir) : i \in DOMAIN s}
          /\ job' = [i \in DOMAIN s |-> NewJob]
          /\ ppc' = IF Len(s) = 0 THEN "returned_no_files" ELSE "check_exe"
    /\ UNCHANGED <<counter, extractor, naming, input_exists, ddjvu_exists, max_workers,
                   output_folder, doc, tree, disk, tmp, cur, successful>>

\* lines 199-202 with the test of the executable left out
PfCheckExeUnchecked ==
    /\ ppc = "check_exe"
    /\ ppc' = IF max_workers > 1 THEN "pool" ELSE "seq"
    /\ cur' = 1
    /\ successful' = 0
    /\ UNCHANGED <<counter, extractor, naming, input_exists, ddjvu_exists, max_workers,
                   output_folder, dirs, doc,
                   tree, disk, tmp, djvu_files, job>>

\* lines 199-202 and the branch of line 212: in the pool branch every job is
\* submitted (lines 214-220), in the other the loop starts (lines 226-228)
PfCheckExe ==
    /\ ppc = "check_exe"
    /\ ppc' = IF ~ddjvu_exists THEN "returned_no_exe"
              ELSE IF max_workers > 1 THEN "pool" ELSE "seq"
    /\ cur' = 1
    /\ successful' = 0
    /\ UNCHANGED <<counter, extractor, naming, input_exists, ddjvu_exists, max_workers,
                   output_folder, dirs, doc,
                   tree, disk, tmp, djvu_files, job>>

\* lines 228-230: the call of the sequential loop has ended; an exception of it
\* leaves process_folder
PfSeqStep ==
    /\ ppc = "seq"
    /\ cur \in Jobs
    /\ job[cur].pc = "done"
    /\ IF job[cur].result = "raised"
       THEN /\ ppc' = "raised"
            /\ UNCHANGED <<cur, successful>>
       ELSE /\ successful' = IF job[cur].result = "true" THEN successful + 1 ELSE successful
            /\ cur' = cur + 1
            /\ UNCHANGED ppc
    /\ UNCHANGED <<counter, extractor, naming, input_exists, ddjvu_exists, max_workers,
                   output_folder, dirs, doc,
                   tree, disk, tmp, djvu_files, job>>

\* lines 221-223 with every completed future counted
PfAwaitCountsEvery ==
    /\ ppc = "pool"
    /\ cur \in Jobs
    /\ job[cur].pc = "done"
    /\ IF job[cur].result = "raised"
       THEN /\ ppc' = "shutdown"
            /\ UNCHANGED <<cur, successful>>
       ELSE /\ successful' = successful + 1
            /\ cur' = cur + 1
            /\ UNCHANGED ppc
    /\ UNCHANGED <<counter, extractor, naming, input_exists, ddjvu_exists, max_workers,
                   output_folder, dirs, doc,
                   tree, disk, tmp, djvu_files, job>>

\* lines 221-223: future.result() of the next future, which re-raises the
\* exception of its call; the with-block then shuts the pool down
PfAwait ==
    /\ ppc = "pool"
    /\ cur \in Jobs
    /\ job[cur].pc = "done"
    /\ IF job[cur].result = "raised"
       THEN /\ ppc' = "shutdown"
            /\ UNCHANGED <<cur, successful>>
       ELSE /\ successful' = IF job[cur].result = "true" THEN successful + 1 ELSE successful
            /\ cur' = cur + 1
            /\ UNCHANGED ppc
    /\ UNCHANGED <<counter, extractor, naming, input_exists, ddjvu_exists, max_workers,
                   output_folder, dirs, doc,
                   tree, disk, tmp, djvu_files, job>>

\* line 214: leaving the with-block on an exception waits for every submitted
\* job (shutdown(wait=True)), then the exception leaves process_folder
PfShutdown ==
    /\ ppc = "shutdown"
    /\ \A j \in Jobs : job[j].pc = "done"
    /\ ppc' = "raised"
    /\ UNCHANGED <<counter, extractor, naming, input_exists, ddjvu_exists, max_workers,
                   output_folder, dirs, doc,
                   tree, disk, tmp, djvu_files, cur, successful, job>>

\* line 232
PfTally ==
    /\ ppc \in {"seq", "pool"}
    /\ cur = Len(djvu_files) + 1
    /\ ppc' = "done"
    /\ UNCHANGED <<counter, extractor, naming, input_exists, ddjvu_exists, max_workers,
                   output_folder, dirs, doc,
                   tree, disk, tmp, djvu_files, cur, successful, job>>

(***************************************************************************)
(* Specifications.                                                         *)
(***************************************************************************)
MainIdle ==
    /\ input_exists = FALSE
    /\ ddjvu_exists = FALSE
    /\ max_workers = 1
    /\ output_folder = "None"
    /\ dirs = {}
    /\ doc = DocFree
    /\ tree = {}
    /\ disk = [p \in DestUniverse |-> NoFile]
    /\ tmp = [d \in TmpNames |-> NoDir]
    /\ djvu_files = <<>>
    /\ ppc = "idle"
    /\ cur = 1
    /\ successful = 0
    /\ job = <<>>

\* a run of process_folder: its arguments, the input tree, and at the
\* destinations either nothing or the archives an earlier run left
Init ==
    /\ counter = CounterIdle
    /\ extractor = ExtractorIdle
    /\ naming = NamingIdle
    /\ input_exists \in BOOLEAN
    /\ ddjvu_exists \in BOOLEAN
    /\ max_workers \in WorkerChoices
    /\ tree \in (IF input_exists THEN Trees ELSE {{}})
    /\ output_folder \in OutputFolderChoices
    /\ doc = DocFree
    /\ \E stale \in BOOLEAN :
          LET dests == IF stale
                       THEN {output_path(OutputRoot, f) : f \in {g \in tree : IsDjvu(g.name)}}
                       ELSE {}
          IN  /\ disk = [p \in DestUniverse |-> IF p \in dests THEN StaleArchive ELSE NoFile]
              /\ \E out_exists \in BOOLEAN :
                    dirs = (IF input_exists THEN InputDirs(tree) ELSE {})
                              \cup UNION {makedirs({}, p.root, p.dir) : p \in dests}
                              \cup (IF out_exists /\ output_folder # "None"
                                    THEN {Dir(OutputRoot, ".")} ELSE {})
    /\ tmp = [d \in TmpNames |-> NoDir]
    /\ djvu_files = <<>>
    /\ ppc = "start"
    /\ cur = 1
    /\ successful = 0
    /\ job = <<>>

Next ==
    \/ PfCheckInput
    \/ PfDiscover
    \/ PfCheckExe
    \/ PfSeqStep
    \/ PfAwait
    \/ PfShutdown
    \/ PfTally
    \/ \E j \in Jobs : StartJob(j)
    \/ \E j \in Jobs : GetPageCount(j)
    \/ \E j \in Jobs : ExtractPage(j)
    \/ \E j \in Jobs : ZipOpen(j)
    \/ \E j \in Jobs : ArchiveAndCleanup(j)

Spec == Init /\ [][Next]_vars

\* get_page_count alone, over the outcomes of its two tools
InitCount == InitCounter /\ extractor = ExtractorIdle /\ naming = NamingIdle /\ MainIdle

NextCount ==
    \/ CountDjvused /\ UNCHANGED <<extractor, naming, mainVars>>
    \/ CountLister /\ UNCHANGED <<extractor, naming, mainVars>>
    \/ CountDefault /\ UNCHANGED <<extractor, naming, mainVars>>

SpecCount == InitCount /\ [][NextCount]_vars

\* extract_page alone, over the outcomes of the rendering tool and of PIL
InitExtract == InitExtractor /\ counter = CounterIdle /\ naming = NamingIdle /\ MainIdle

NextExtract == ExtractCall /\ UNCHANGED <<counter, naming, mainVars>>

SpecExtract == InitExtract /\ [][NextExtract]_vars

\* convert_djvu_to_cbz called twice in a row for the same source document and
\* destination, the document's tools behaving the same way in both calls; the
\* destination holds nothing or the archive of an earlier run
InitRerun ==
    /\ counter = CounterIdle
    /\ extractor = ExtractorIdle
    /\ naming = NamingIdle
    /\ input_exists = TRUE
    /\ ddjvu_exists = TRUE
    /\ max_workers = 1
    /\ output_folder = "None"
    /\ dirs = InputDirs({FileA})
    /\ doc \in DocBehaviours
    /\ tree = {FileA}
    /\ \E old \in {NoFile, StaleArchive} :
          disk = [p \in DestUniverse |->
                    IF p = output_path(InputFolder, FileA) THEN old ELSE NoFile]
    /\ tmp = [d \in TmpNames |-> NoDir]
    /\ djvu_files = [i \in 1..2 |->
                       [input |-> FileA, output |-> output_path(InputFolder, FileA)]]
    /\ ppc = "seq"
    /\ cur = 1
    /\ successful = 0
    /\ job = [i \in 1..2 |-> NewJob]

NextRerun ==
    \/ PfSeqStep
    \/ PfTally
    \/ \E j \in Jobs : StartJob(j)
    \/ \E j \in Jobs : GetPageCount(j)
    \/ \E j \in Jobs : ExtractPage(j)
    \/ \E j \in Jobs : ArchiveAndCleanup(j)

SpecRerun == InitRerun /\ [][NextRerun]_vars

\* the naming and sorting of the page files alone, over sets of extracted pages
InitNames == InitNaming /\ counter = CounterIdle /\ extractor = ExtractorIdle /\ MainIdle

NextNames == ListAndSort /\ UNCHANGED <<counter, extractor, mainVars>>

SpecNames == InitNames /\ [][NextNames]_vars


(***************************************************************************)
(* Properties.                                                             *)
(***************************************************************************)
\* the pages of P in ascending order
RECURSIVE Ascending(_)
Ascending(P) ==
    IF P = {} THEN <<>>
    ELSE LET m == CHOOSE x \in P : \A y \in P : x <= y
         IN  <<m>> \o Ascending(P \ {m})

\* the page file names of the pages of P, in ascending page order
NamesInPageOrder(P) == [i \in 1..Cardinality(P) |-> page_filename(Ascending(P)[i])]

\* the step is the end of job j's invocation after its page loop
EndsAfterLoop(j) ==
    /\ j \in DOMAIN job /\ j \in DOMAIN job'
    /\ job[j].pc \in {"extract", "zip"}
    /\ job'[j].pc = "done"

\* C1: when exactly k of the n pages (0 < k < n) had extract_page return true,
\* the archive written at the destination holds exactly the k entries of those
\* pages, in ascending page order, and none of a page whose extraction returned
\* false.
C1_ArchiveHoldsExactlyExtractedPages ==
    [][\A j \in 1..Cardinality(FileUniverse) :
          ( /\ EndsAfterLoop(j)
            /\ Cardinality(job[j].extracted) > 0
            /\ Cardinality(job[j].extracted) < job[j].num_pages
            /\ disk'[djvu_files[j].output].by = j
            /\ disk'[djvu_files[j].output].complete )
          => disk'[djvu_files[j].output].entries = NamesInPageOrder(job[j].extracted)]_vars

\* C2: the sorted listing of the page file names is in strictly ascending
\* page-index order, whatever the page count and the set of extracted pages.
C2_SortedNamesInPageOrder ==
    naming.pc = "sorted" =>
        /\ Len(naming.png_files) = Cardinality(naming.pages)
        /\ \A i, k \in DOMAIN naming.png_files :
              i < k => PageOfName(naming.png_files[i]) < PageOfName(naming.png_files[k])

\* C3: an invocation in which no page was extracted returns false and leaves
\* the file at its destination as it was.
C3_NoPagesReturnsFalseDestinationUntouched ==
    [][\A j \in 1..Cardinality(FileUniverse) :
          (EndsAfterLoop(j) /\ job[j].extracted = {})
          => /\ job'[j].result = "false"
             /\ disk' = disk]_vars

\* C4: when an invocation has returned false, no archive file exists at its
\* destination.
C4_NoArchiveAfterFalse ==
    \A j \in Jobs :
        (job[j].pc = "done" /\ job[j].result = "false")
        => ~disk[djvu_files[j].output].exists

\* the invocations that hold a scratch directory
InProgress == {j \in Jobs : job[j].pc \in {"count", "extract", "zip"}}

C6_NoFaultLeavesConverter ==
    /\ ppc # "raised"
    /\ \A j \in Jobs : job[j].result # "raised"

\* C7: get_page_count returns an integer >= 1.
C7_PageCountPositive == counter.pc = "returned" => counter.ret >= 1

\* a string of decimal digits
IsDecimal(s) == s # <<>> /\ \A i \in 1..Len(s) : s[i] \in DecimalChars

\* the script-evaluator attempt failed: the call raised, the exit status is
\* not 0, or the output is not a string of decimal digits (for which int()
\* raises where isdigit() accepted it)
DjvusedFailed(o) == o.raised \/ o.rc # 0 \/ ~IsDecimal(Strip(o.stdout))

\* the page-lister attempt failed: the call raised, the exit status is not 0,
\* or no line starts with the page marker
ListerFailed(o) == o.raised \/ o.rc # 0 \/ PageLines(o.stdout) = {}

\* C8: the strategies are tried in the order script evaluator, page lister,
\* default, and the first that succeeds gives the value: the lister is invoked
\* only after the script evaluator failed, the default is returned only after
\* both failed, and a successful script evaluator is returned without the
\* lister being invoked.
C8_FallbackOrder ==
    counter.pc # "idle" =>
        /\ counter.calls \in {<<>>, <<"djvused">>, <<"djvused", "lister">>}
        /\ (\E i \in DOMAIN counter.calls : counter.calls[i] = "lister")
              => DjvusedFailed(counter.djvused)
        /\ counter.by = "default"
              => /\ counter.calls = <<"djvused", "lister">>
                 /\ DjvusedFailed(counter.djvused)
                 /\ ListerFailed(counter.lister)
                 /\ counter.ret = DefaultPages
        /\ (counter.pc = "returned" /\ ~DjvusedFailed(counter.djvused))
              => /\ counter.calls = <<"djvused">>
                 /\ counter.by = "djvused"
                 /\ counter.ret = IntOf(Strip(counter.djvused.stdout))
        /\ (counter.pc = "returned" /\ DjvusedFailed(counter.djvused)
                /\ ~ListerFailed(counter.lister))
              => /\ counter.by = "lister"
                 /\ counter.ret = Cardinality(PageLines(counter.lister.stdout))

\* C8 witness: the default was returned after both tools were invoked.
C8_Witness ==
    /\ counter.pc = "returned"
    /\ counter.by = "default"
    /\ counter.calls = <<"djvused", "lister">>

\* C9: when extract_page returns true the PNG exists, written whole by the
\* rendering tool or by the re-encoding, and no TIFF exists; an exit status 0
\* without the output file is no success; a success after a primary call that
\* failed or left no file is the re-encoded PNG with the TIFF deleted.
C9_SuccessLeavesOnlyPng ==
    extractor.pc = "returned" =>
        LET o == extractor.tools
            primaryOk == ~o.primary.raised /\ o.primary.rc = 0 /\ o.primary.wrote
            secondaryOk == ~o.secondary.raised /\ o.secondary.rc = 0 /\ o.secondary.wrote
        IN  /\ extractor.ret
                  => extractor.files.png \in {"ddjvu", "pil"} /\ ~extractor.files.tiff
            /\ (extractor.ret /\ primaryOk) => extractor.files.png = "ddjvu"
            /\ (extractor.ret /\ ~primaryOk)
                  => /\ secondaryOk
                     /\ extractor.files = [png |-> "pil", tiff |-> FALSE]
            /\ (~primaryOk /\ ~secondaryOk) => ~extractor.ret

\* C9 witness: the primary call exited 0 without a file, the secondary call
\* succeeded, and extract_page returned true.
C9_Witness ==
    /\ extractor.pc = "returned"
    /\ extractor.ret
    /\ extractor.tools.primary.rc = 0
    /\ ~extractor.tools.primary.wrote
    /\ extractor.files.png = "pil"

\* C10: the recorded jobs have pairwise distinct destination paths.
C10_DistinctDestinations ==
    \A i, k \in Jobs : i # k => djvu_files[i].output # djvu_files[k].output

\* the jobs a run with max_workers = 1 calls convert_djvu_to_cbz for: those up
\* to the first whose call raises
SequentialJobs ==
    {j \in Jobs : \A i \in 1..(j - 1) : job[i].result # "raised"}

\* the job whose file a run with max_workers = 1 leaves at destination p: the
\* last in list order that opened p (0: none, the file is as before the run)
SequentialWriter(p) ==
    LET W == {j \in SequentialJobs : job[j].opened /\ djvu_files[j].output = p}
    IN  IF W = {} THEN 0 ELSE CHOOSE j \in W : \A i \in W : i <= j

\* the success count of a run with max_workers = 1
SequentialSuccessful == Cardinality({j \in SequentialJobs : job[j].result = "true"})

\* C11: with each document's conversion doing what it did in this run, the
\* run ends as the run with max_workers = 1 ends: at every destination the
\* file is the one the sequential run leaves there (that of the last job in
\* list order that wrote it, whole when that job returned true), and the
\* success count is the same; this for max_workers = 1 and max_workers > 1
\* and every interleaving of the workers.
C11_EndsAsSequentialRun ==
    ppc \in {"done", "raised"} =>
        /\ \A p \in DestUniverse :
              /\ disk[p].by = SequentialWriter(p)
              /\ (disk[p].by \in Jobs /\ job[disk[p].by].result = "true")
                    => disk[p].complete
        /\ successful = SequentialSuccessful

\* C12: the success counter is the number of jobs, among those the main loop
\* has taken the result of, whose invocation returned true; when the tally is
\* printed every job has ended, the counter is the number of jobs that
\* returned true and the total is the number of source files found; at every
\* moment 0 <= successful <= total.
C12_TallyCountsTrueReturns ==
    /\ 0 <= successful /\ successful <= Len(djvu_files)
    /\ ppc \in {"seq", "pool", "shutdown", "raised", "done"} =>
          successful = Cardinality({j \in 1..(cur - 1) : job[j].result = "true"})
    /\ ppc = "done" =>
          /\ \A j \in Jobs : job[j].pc = "done"
          /\ successful = Cardinality({j \in Jobs : job[j].result = "true"})
          /\ Len(djvu_files) = Cardinality({f \in tree : IsDjvu(f.name)})

\* C12 witness: a worker-pool run printed the tally 1 of 2, the first job
\* having returned false and the second true.
C12_Witness ==
    /\ ppc = "done"
    /\ max_workers > 1
    /\ Len(djvu_files) = 2
    /\ job[1].result = "false" /\ job[2].result = "true"
    /\ successful = 1

\* the ways process_folder ends without reaching line 232: the returns of
\* lines 164, 195 and 202, and an exception of a conversion
EndedWithoutTally ==
    ppc \in {"returned_no_input", "returned_no_files", "returned_no_exe", "raised"}

\* C13: no run of process_folder ends without the final tally: not with a
\* missing input directory, an empty job set, a missing renderer executable
\* or a failing job.
C13_NoRunEndsWithoutTally == ~EndedWithoutTally

\* the source-document extension a file name ends in, case-insensitively
\* (<<>>: none)
ExtensionOf(name) ==
    IF \E e \in DjvuExts : EndsWith(Lower(name), e)
    THEN CHOOSE e \in DjvuExts : EndsWith(Lower(name), e)
    ELSE <<>>

\* the archive path that mirrors a source file under the output folder: the
\* same relative directory, the name with its extension replaced by .cbz
MirroredPath(f) ==
    [root |-> IF output_folder = "None" THEN InputFolder ELSE output_folder,
     dir  |-> f.dir,
     name |-> SubSeq(f.name, 1, Len(f.name) - Len(ExtensionOf(f.name))) \o CbzExt]

\* discovery is over
Discovered == ppc \notin {"idle", "start", "discover", "returned_no_input"}

C15_RerunLeavesSameEntries ==
    [][(doc.fixed /\ EndsAfterLoop(2) /\ job[1].pc = "done")
          => LET dest == djvu_files[2].output
             IN  /\ disk'[dest].exists = disk[dest].exists
                 /\ disk'[dest].entries = disk[dest].entries
                 /\ disk'[dest].complete = disk[dest].complete
                 /\ job'[2].result = "true"
                       => /\ disk'[dest].by = 2
                          /\ disk[dest].by = 1
                          /\ disk'[dest].entries = png_files(tmp[job[2].temp_dir])]_vars

\* C15 witness: both conversions have returned true and the archive, written
\* by the second, holds the two pages.
C15_Witness ==
    /\ doc.fixed
    /\ Len(djvu_files) = 2
    /\ job[1].result = "true" /\ job[2].result = "true"
    /\ disk[djvu_files[2].output].by = 2
    /\ disk[djvu_files[2].output].entries = <<page_filename(1), page_filename(2)>>

\* the pages of job j's scratch directory whose files the step changes
PagesTouched(j) ==
    {p \in 1..MaxPages : tmp'[job[j].temp_dir].files[p] # tmp[job[j].temp_dir].files[p]}

\* C16: within one invocation with page count n, extract_page is called for
\* the pages 1, 2, ..., n in this order, one call per step and one call per
\* page: the loop starts at page 1 with the counter at 0, each call is for the
\* page after the last one called, whatever that call returned, and touches
\* the files of its page only; the loop is left only after page n; and the
\* success counter is then the number of calls that returned true.
C16_EveryPageAttemptedInOrder ==
    [][\A j \in 1..Cardinality(FileUniverse) :
          (j \in DOMAIN job /\ j \in DOMAIN job' /\ job'[j] # job[j]) =>
             /\ (job[j].pc = "count") =>
                   /\ job'[j].pc = "extract"
                   /\ job'[j].page = 1
                   /\ job'[j].successful_pages = 0 /\ job'[j].extracted = {}
             /\ (job[j].pc = "extract" /\ job'[j].pc = "extract") =>
                   /\ job[j].page \in 1..job[j].num_pages
                   /\ job'[j].page = job[j].page + 1
                   /\ job'[j].num_pages = job[j].num_pages
                   /\ PagesTouched(j) \subseteq {job[j].page}
                   /\ job'[j].extracted \ job[j].extracted \subseteq {job[j].page}
                   /\ job[j].extracted \subseteq job'[j].extracted
                   /\ job'[j].successful_pages = Cardinality(job'[j].extracted)
             /\ (job[j].pc = "extract" /\ job'[j].pc # "extract") =>
                   /\ job[j].page = job[j].num_pages + 1
                   /\ job[j].successful_pages = Cardinality(job[j].extracted)
                   /\ job[j].extracted \subseteq 1..job[j].num_pages]_vars

\* C16 witness: a 2-page invocation whose call for page 1 returned false has
\* made the call for page 2, which returned true, and is at the end of the
\* loop with the counter at 1.
C16_Witness ==
    \E j \in Jobs :
        /\ job[j].pc = "extract"
        /\ job[j].num_pages = 2
        /\ job[j].page = 3
        /\ job[j].extracted = {2}
        /\ job[j].successful_pages = 1

\* the primary attempt of the call did not succeed
PrimaryFailed(o) == o.primary.raised \/ o.primary.rc # 0 \/ ~o.primary.wrote

\* the secondary rendering call was made and left the TIFF file
TiffLeft(o) == PrimaryFailed(o) /\ ~o.primary.raised /\ ~o.secondary.raised /\ o.secondary.wrote

\* C17 (as claimed): when the primary attempt did not succeed and the TIFF
\* file exists after the secondary rendering call, whatever that call's exit
\* status, the file is re-encoded to the PNG, the TIFF is deleted and
\* extract_page returns true.
C17_TiffOnDiskIsConverted ==
    (extractor.pc = "returned" /\ TiffLeft(extractor.tools)) =>
        /\ extractor.ret
        /\ extractor.files = [png |-> "pil", tiff |-> FALSE]

\* C17 (amended): when the primary attempt did not succeed, the secondary
\* rendering call exits with status 0 and the TIFF file exists after it, the
\* file is re-encoded; extract_page returns true, with the re-encoded PNG and
\* no TIFF left, exactly when the re-encoding and the deletion raise nothing,
\* and false otherwise.  When the secondary call exits with another status
\* the TIFF it left is neither re-encoded nor deleted and extract_page returns
\* false.
C17_TiffConvertedOnZeroStatus ==
    (extractor.pc = "returned" /\ TiffLeft(extractor.tools)) =>
        LET o == extractor.tools
            clean == o.pil = "ok" /\ ~o.remove_raises
        IN  /\ (o.secondary.rc = 0 /\ clean)
                  => extractor.ret /\ extractor.files = [png |-> "pil", tiff |-> FALSE]
            /\ (o.secondary.rc = 0 /\ ~clean) => ~extractor.ret
            /\ o.secondary.rc # 0
                  => /\ ~extractor.ret
                     /\ extractor.files.tiff
                     /\ extractor.files.png = (IF o.primary.wrote THEN "ddjvu" ELSE "absent")

\* C17 witness: the primary call exited non-zero without a file, the
\* secondary call exited 0 and left the TIFF, and extract_page returned true.
C17_Witness ==
    /\ extractor.pc = "returned"
    /\ extractor.tools.primary.rc # 0
    /\ TiffLeft(extractor.tools)
    /\ extractor.tools.secondary.rc = 0
    /\ extractor.ret

\* the number of invocations that may be in progress at once
WorkerBound == IF max_workers > 1 THEN max_workers ELSE 1

\* process_folder has ended after dispatching began
RunEnded == ppc \in {"done", "raised"}

\* C18: at every moment at most max_workers invocations are in progress when
\* max_workers > 1, and at most one otherwise, job i + 1 then starting only
\* after job i has ended; an invocation that was started is never started
\* again, and when the run has ended every discovered job has been
\* dispatched.
C18_BoundedDispatchExactlyOnce ==
    [][/\ Cardinality({j \in DOMAIN job' : job'[j].pc \in {"count", "extract", "zip"}})
            <= WorkerBound
       /\ max_workers <= 1 =>
             \A i, k \in DOMAIN job' :
                (i < k /\ job'[k].pc # "pending") => job'[i].pc = "done"
       /\ \A j \in DOMAIN job :
             (j \in DOMAIN job' /\ job[j].pc # "pending") => job'[j].pc # "pending"
       /\ ppc' \in {"done", "raised"} => \A j \in DOMAIN job' : job'[j].pc = "done"]_vars

\* a batch-level precondition fails: input_folder does not exist, it holds no
\* source document, or the renderer executable is absent
PreconditionFails ==
    \/ ~input_exists
    \/ \A f \in tree : ExtensionOf(f.name) = <<>>
    \/ ~ddjvu_exists

\* C19: in a run in which a batch-level precondition fails no conversion is
\* ever invoked: every recorded job stays not started (so neither the
\* page-count tools nor the rendering tool are run), no scratch directory
\* exists, no archive is written (every destination holds what it held before
\* the run), and process_folder ends by one of its three returns.
C19_NoWorkWhenPreconditionFails ==
    PreconditionFails =>
        /\ \A j \in Jobs : job[j] = NewJob
        /\ \A d \in TmpNames : tmp[d] = NoDir
        /\ \A p \in DestUniverse : disk[p].by = 0
        /\ ppc \in {"start", "discover", "check_exe",
                     "returned_no_input", "returned_no_files", "returned_no_exe"}
        /\ ppc = "returned_no_input" => ~input_exists
        /\ ppc = "returned_no_files" => input_exists /\ djvu_files = <<>>
        /\ ppc = "returned_no_exe" => ~ddjvu_exists /\ djvu_files # <<>>

\* C19 witness: two jobs were recorded, the renderer executable is absent and
\* process_folder has returned.
C19_Witness ==
    /\ ppc = "returned_no_exe"
    /\ Len(djvu_files) = 2
    /\ \A j \in Jobs : job[j].pc = "pending"

\* the entries of an archive file, as a set
EntrySet(file) == {file.entries[i] : i \in 1..Len(file.entries)}

\* C20: when an invocation returns true, the archive at its destination has at
\* least one entry, it has the entry page_<index>.png of every page whose
\* extract_page call returned true, and its entries are exactly the names
\* ending in .png that were in the invocation's scratch directory when the
\* archive was written.
C20_TrueReturnArchiveHoldsScratchPngs ==
    [][\A j \in 1..Cardinality(FileUniverse) :
          (EndsAfterLoop(j) /\ job'[j].result = "true") =>
             LET a == disk'[djvu_files[j].output]
                 listing == ListDir(tmp[job[j].temp_dir])
             IN  /\ a.exists
                 /\ Len(a.entries) >= 1
                 /\ \A p \in job[j].extracted : page_filename(p) \in EntrySet(a)
                 /\ EntrySet(a) = {f \in listing : EndsWith(f, PngExt)}]_vars

====
